---- MODULE Spec2Model ----
(***************************************************************************)
(* Hotel room store (rooms, bookings, auto_checkout_logs,                  *)
(* room_status_history), the front-desk API of the supabase client         *)
(* (createBooking, checkIn, checkOut, updateRoomStatus) and the plpgsql    *)
(* function auto_checkout_rooms() of the migration.                        *)
(*                                                                         *)
(* Time is a tick counter; DATE(t) is the calendar day of tick t.  A       *)
(* nullable timestamp column is a set with at most one element ({} is      *)
(* NULL), so that a comparison with NULL is false as in SQL.               *)
(*                                                                         *)
(* Spec runs every operation to completion, one after the other, from the  *)
(* empty store.  SpecOverlap interleaves the individual store writes of    *)
(* one front-desk call and of two auto_checkout_rooms() transactions.      *)
(***************************************************************************)
EXTENDS Integers, Sequences, FiniteSets, TLC

\* ---------------------------------------------------------------- bounds
\* number of operations (API calls, auto_checkout_rooms() calls, clock ticks)
\* in one explored history
MaxSteps == 6
\* clock ticks while front-desk and auto_checkout_rooms() calls overlap
MaxTicks == 2
\* front-desk calls, clock ticks and failed auto_checkout_rooms() calls made
\* while the scheduler keeps calling
MaxCalls == 3

\* ---------------------------------------------------------------- schema
RoomSeq == <<"r1", "r2">>
Rooms == {RoomSeq[i] : i \in 1..Len(RoomSeq)}
Hotel == "h1"
RoomStatus == {"available", "occupied", "maintenance", "cleaning"}

\* DATE(timestamptz): two ticks per calendar day
DATE(t) == t \div 2

VARIABLES
  rooms,                \* rooms table: room id -> [status, last_checkout]
  bookings,             \* bookings table: sequence of rows, id = index
  auto_checkout_logs,   \* auto_checkout_logs table, rows in insertion order
  room_status_history,  \* room_status_history table, rows in insertion order
  now,                  \* the database clock, now()
  lastRuns,             \* the times of the auto_checkout_rooms() calls made
                        \* since the last other operation, oldest first
  steps,                \* operations performed so far
  desk,                 \* the front-desk call in flight: its position, operation,
                        \* booking id and the room_id its booking write returned
  txn,                  \* per auto_checkout_rooms() caller: the position of its
                        \* transaction, its start time, the rows it has written and
                        \* holds locked, the rows it has inserted, and whether it
                        \* ran while another caller's transaction was open
  written               \* per booking: the UPDATEs that have set it 'checked_out'

vars == <<rooms, bookings, auto_checkout_logs, room_status_history, now, lastRuns, steps,
          desk, txn, written>>

CURRENT_DATE == DATE(now)
BookingIds == 1..Len(bookings)

\* ---------------------------------------------------------------- rows
NewRoom == [status |-> "available", last_checkout |-> {}]

\* price_per_night of the sample rooms
price_per_night == 100

\* nights * selectedRoom.price_per_night
calculateTotal(checkIn, checkOut) == (checkOut - checkIn) * price_per_night

\* the row the booking form submits: checkInDate is the form's default, today
NewBooking(r, d) ==
  [hotel_id |-> Hotel, room_id |-> r,
   check_in_date |-> CURRENT_DATE, check_out_date |-> d,
   total_amount |-> calculateTotal(CURRENT_DATE, d),
   actual_check_in |-> {}, actual_check_out |-> {},
   status |-> "confirmed", auto_checkout |-> FALSE]

\* ---------------------------------------------------------------- auto_checkout_rooms(), statement by statement
\* variant: the status test also lets checked_out rows through
Expired_AnyStayStatus(b, t) ==
  b.status \in {"checked_in", "checked_out"} /\ b.check_out_date <= DATE(t)

\* variant: the date test is strict
Expired_StrictDate(b, t) == b.status = "checked_in" /\ b.check_out_date < DATE(t)

\* WHERE status = 'checked_in' AND check_out_date <= CURRENT_DATE
Expired(b, t) == b.status = "checked_in" /\ b.check_out_date <= DATE(t)

\* SET status = 'checked_out', actual_check_out = now(), auto_checkout = true
CheckedOutRow(b, t) ==
  [b EXCEPT !.status = "checked_out", !.actual_check_out = {t}, !.auto_checkout = TRUE]

\* UPDATE bookings SET ... WHERE status = 'checked_in' AND check_out_date <= CURRENT_DATE
UpdateBookings(bk, t) ==
  [i \in DOMAIN bk |-> IF Expired(bk[i], t) THEN CheckedOutRow(bk[i], t) ELSE bk[i]]

\* WHERE status = 'checked_out' AND auto_checkout = true AND DATE(actual_check_out) = CURRENT_DATE
AutoCheckedOutToday(bk, t) ==
  {i \in DOMAIN bk : /\ bk[i].status = "checked_out"
                     /\ bk[i].auto_checkout = TRUE
                     /\ \E ts \in bk[i].actual_check_out : DATE(ts) = DATE(t)}

\* SET status = 'available', last_checkout = now()
FreedRoom(t) == [status |-> "available", last_checkout |-> {t}]

\* variant: the room statement leaves last_checkout alone
UpdateRooms_KeepLastCheckout(rm, bk, t) ==
  [r \in Rooms |->
     IF \E i \in AutoCheckedOutToday(bk, t) : bk[i].room_id = r
       THEN [rm[r] EXCEPT !.status = "available"]
       ELSE rm[r]]

\* UPDATE rooms SET status = 'available', last_checkout = now() WHERE id IN (SELECT DISTINCT room_id ...)
UpdateRooms(rm, bk, t) ==
  [r \in Rooms |->
     IF \E i \in AutoCheckedOutToday(bk, t) : bk[i].room_id = r
       THEN FreedRoom(t)
       ELSE rm[r]]

\* INSERT INTO auto_checkout_logs ... SELECT ... FROM bookings b WHERE ...
LogRows(bk, t) ==
  LET all == [i \in 1..Len(bk) |->
                [hotel_id |-> bk[i].hotel_id, room_id |-> bk[i].room_id,
                 booking_id |-> i, checkout_time |-> t]]
  IN SelectSeq(all, LAMBDA e : e.booking_id \in AutoCheckedOutToday(bk, t))

\* INSERT INTO room_status_history ... FROM rooms r
\*   WHERE r.status = 'available' AND DATE(r.last_checkout) = CURRENT_DATE
HistoryRows(rm, t) ==
  LET all == [i \in 1..Len(RoomSeq) |->
                [room_id |-> RoomSeq[i], old_status |-> "occupied",
                 new_status |-> "available", changed_by |-> "null",
                 created_at |-> t]]
  IN SelectSeq(all, LAMBDA e : /\ rm[e.room_id].status = "available"
                               /\ \E ts \in rm[e.room_id].last_checkout : DATE(ts) = DATE(t))

\* ---------------------------------------------------------------- front-desk writes
\* bookings.update({status: 'checked_in', actual_check_in: now}).eq('id', bookingId)
CheckInBookingWrite(bk, b, t) ==
  [bk EXCEPT ![b].status = "checked_in", ![b].actual_check_in = {t}]

\* rooms.update({status: 'occupied'}).eq('id', data.room_id)
CheckInRoomWrite(rm, r) == [rm EXCEPT ![r].status = "occupied"]

\* bookings.update({status: 'checked_out', actual_check_out: now}).eq('id', bookingId)
CheckOutBookingWrite(bk, b, t) ==
  [bk EXCEPT ![b].status = "checked_out", ![b].actual_check_out = {t}]

\* rooms.update({status: 'available', last_checkout: now}).eq('id', data.room_id)
CheckOutRoomWrite(rm, r, t) ==
  [rm EXCEPT ![r].status = "available", ![r].last_checkout = {t}]

\* ---------------------------------------------------------------- callers
\* the scheduled daily run and the dashboard's manual trigger
Passes == {"cron", "trigger"}

IdleTxn == [pc |-> "idle", at |-> 0, wb |-> {}, wr |-> {}, logs |-> << >>, hist |-> << >>,
            overlapped |-> FALSE]
IdleDesk == [pc |-> "idle", op |-> "none", b |-> 0, room_id |-> "none", result |-> "pending"]

\* ---------------------------------------------------------------- initial state
Init ==
  /\ rooms = [r \in Rooms |-> NewRoom]
  /\ bookings = << >>
  /\ auto_checkout_logs = << >>
  /\ room_status_history = << >>
  /\ now = 0
  /\ lastRuns = << >>
  /\ steps = 0
  /\ desk = IdleDesk
  /\ txn = [p \in Passes |-> IdleTxn]
  /\ written = << >>

\* ---------------------------------------------------------------- operations, each run to completion
\* bookingAPI.createBooking: one INSERT; the caller passes status 'confirmed'
createBooking(r, d) ==
  /\ bookings' = Append(bookings, NewBooking(r, d))
  /\ lastRuns' = << >>
  /\ UNCHANGED <<rooms, auto_checkout_logs, room_status_history, now, desk, txn, written>>

\* bookingAPI.checkIn: booking write by id, then room write; .single() on a
\* missing id is an error thrown before the room write
checkIn(b) ==
  /\ lastRuns' = << >>
  /\ IF b \in BookingIds
       THEN /\ bookings' = CheckInBookingWrite(bookings, b, now)
            /\ rooms' = CheckInRoomWrite(rooms, bookings[b].room_id)
       ELSE UNCHANGED <<bookings, rooms>>
  /\ UNCHANGED <<auto_checkout_logs, room_status_history, now, desk, txn, written>>

\* bookingAPI.checkOut: booking write by id, then room write
checkOut(b) ==
  /\ lastRuns' = << >>
  /\ IF b \in BookingIds
       THEN /\ bookings' = CheckOutBookingWrite(bookings, b, now)
            /\ rooms' = CheckOutRoomWrite(rooms, bookings[b].room_id, now)
       ELSE UNCHANGED <<bookings, rooms>>
  /\ UNCHANGED <<auto_checkout_logs, room_status_history, now, desk, txn, written>>

\* roomAPI.updateRoomStatus: one UPDATE by id, any status
updateRoomStatus(r, s) ==
  /\ rooms' = [rooms EXCEPT ![r].status = s]
  /\ lastRuns' = << >>
  /\ UNCHANGED <<bookings, auto_checkout_logs, room_status_history, now, desk, txn, written>>

\* variant: the log statement rewrites the table instead of inserting into it
auto_checkout_rooms_ReplaceLogs ==
  /\ LET bk == UpdateBookings(bookings, now)
         rm == UpdateRooms(rooms, bk, now)
     IN /\ bookings' = bk
        /\ rooms' = rm
        /\ auto_checkout_logs' = LogRows(bk, now)
        /\ room_status_history' = room_status_history \o HistoryRows(rm, now)
  /\ lastRuns' = Append(lastRuns, now)
  /\ UNCHANGED <<now, desk, txn, written>>

\* auto_checkout_rooms(): the four statements in order, in one transaction
auto_checkout_rooms ==
  /\ LET bk == UpdateBookings(bookings, now)
         rm == UpdateRooms(rooms, bk, now)
     IN /\ bookings' = bk
        /\ rooms' = rm
        /\ auto_checkout_logs' = auto_checkout_logs \o LogRows(bk, now)
        /\ room_status_history' = room_status_history \o HistoryRows(rm, now)
  /\ lastRuns' = Append(lastRuns, now)
  /\ UNCHANGED <<now, desk, txn, written>>

\* the clock advances
Tick ==
  /\ now' = now + 1
  /\ UNCHANGED <<rooms, bookings, auto_checkout_logs, room_status_history, lastRuns,
                 desk, txn, written>>

\* one more operation within the explored history
Step == steps < MaxSteps /\ steps' = steps + 1

\* a booking is made for a stay ending today or tomorrow
StayEnds == {CURRENT_DATE, CURRENT_DATE + 1}

\* an id of a stored booking, or the next id, which no booking has yet
SomeId == 1..(Len(bookings) + 1)

Next ==
  \/ \E r \in Rooms, d \in StayEnds : Step /\ createBooking(r, d)
  \/ \E b \in SomeId : Step /\ checkIn(b)
  \/ \E b \in SomeId : Step /\ checkOut(b)
  \/ \E r \in Rooms, s \in RoomStatus : Step /\ updateRoomStatus(r, s)
  \/ Step /\ auto_checkout_rooms
  \/ Step /\ Tick

Spec == Init /\ [][Next]_vars

\* ================================================================ overlapping calls
\* The front-desk calls are two autocommit UPDATEs with an await between them;
\* auto_checkout_rooms() is four statements in one READ COMMITTED transaction:
\* its writes stay private and its written rows stay locked until it commits,
\* each statement reads the committed store plus the transaction's own writes,
\* and an UPDATE that meets a row locked by someone else waits for the lock.

\* the store as transaction p reads it
ViewBookings(p) ==
  [i \in DOMAIN bookings |->
     IF i \in txn[p].wb THEN CheckedOutRow(bookings[i], txn[p].at) ELSE bookings[i]]

ViewRooms(p) ==
  [r \in Rooms |-> IF r \in txn[p].wr THEN FreedRoom(txn[p].at) ELSE rooms[r]]

\* rows locked by a transaction of a caller other than p (the front desk, "desk",
\* runs no transaction of its own: every open transaction is another caller's)
LockedBookings(p) == UNION {txn[q].wb : q \in Passes \ {p}}
LockedRooms(p) == UNION {txn[q].wr : q \in Passes \ {p}}

\* a store a front desk reaches at time 0: booking 1 is checked in to r1 and ends
\* today; booking 2 is confirmed for either room, or checked in to r2
InitOverlap ==
  /\ now = 0
  /\ \E r \in Rooms, d \in {0, 1}, st \in {"confirmed", "checked_in"} :
       /\ st = "checked_in" => r = RoomSeq[2]
       /\ bookings =
            << [NewBooking(RoomSeq[1], 0) EXCEPT !.status = "checked_in", !.actual_check_in = {0}],
               IF st = "checked_in"
                 THEN [NewBooking(r, d) EXCEPT !.status = "checked_in", !.actual_check_in = {0}]
                 ELSE NewBooking(r, d) >>
       /\ rooms = [x \in Rooms |->
                     IF x = RoomSeq[1] \/ (st = "checked_in" /\ x = r)
                       THEN [NewRoom EXCEPT !.status = "occupied"]
                       ELSE NewRoom]
  /\ auto_checkout_logs = << >>
  /\ room_status_history = << >>
  /\ lastRuns = << >>
  /\ steps = 0
  /\ desk = IdleDesk
  /\ txn = [p \in Passes |-> IdleTxn]
  /\ written = [b \in 1..2 |-> 0]

\* variant: the first await writes the room, not the booking
DeskBookingWrite_RoomFirst(op, b) ==
  /\ desk.pc = "idle"
  /\ bookings[b].room_id \notin LockedRooms("desk")
  /\ rooms' = IF op = "checkIn" THEN CheckInRoomWrite(rooms, bookings[b].room_id)
                                ELSE CheckOutRoomWrite(rooms, bookings[b].room_id, now)
  /\ desk' = [pc |-> "room", op |-> op, b |-> b, room_id |-> bookings[b].room_id,
               result |-> "pending"]
  /\ UNCHANGED <<bookings, auto_checkout_logs, room_status_history, now, lastRuns, steps,
                 txn, written>>

\* checkIn / checkOut, first await: the booking UPDATE by id (waits for a row lock)
DeskBookingWrite(op, b) ==
  /\ desk.pc = "idle"
  /\ b \notin LockedBookings("desk")
  /\ bookings' = IF op = "checkIn" THEN CheckInBookingWrite(bookings, b, now)
                                   ELSE CheckOutBookingWrite(bookings, b, now)
  /\ written' = IF op = "checkOut" THEN [written EXCEPT ![b] = @ + 1] ELSE written
  /\ desk' = [pc |-> "room", op |-> op, b |-> b, room_id |-> bookings[b].room_id,
               result |-> "pending"]
  /\ UNCHANGED <<rooms, auto_checkout_logs, room_status_history, now, lastRuns, steps, txn>>

\* checkIn / checkOut, first await: the booking UPDATE fails in the store;
\* `if (error) throw error`
DeskBookingWriteFails(op, b) ==
  /\ desk.pc = "idle"
  /\ desk' = [pc |-> "booking_failed", op |-> op, b |-> b, room_id |-> "none",
               result |-> "error"]
  /\ UNCHANGED <<rooms, bookings, auto_checkout_logs, room_status_history, now, lastRuns,
                 steps, txn, written>>

\* checkIn / checkOut, second await: the room UPDATE by data.room_id, then
\* `return data as Booking`
DeskRoomWrite ==
  /\ desk.pc = "room"
  /\ desk.room_id \notin LockedRooms("desk")
  /\ rooms' = IF desk.op = "checkIn" THEN CheckInRoomWrite(rooms, desk.room_id)
                                     ELSE CheckOutRoomWrite(rooms, desk.room_id, now)
  /\ desk' = [desk EXCEPT !.pc = "done", !.result = "booking"]
  /\ UNCHANGED <<bookings, auto_checkout_logs, room_status_history, now, lastRuns, steps,
                 txn, written>>

\* checkIn / checkOut, second await: the room UPDATE fails in the store, or the
\* client stops before it; the booking write stands.  The awaited result of the
\* room UPDATE is not read: after a store error the call goes on to
\* `return data as Booking`; a client that stopped returns nothing.
DeskRoomWriteFails ==
  /\ desk.pc = "room"
  /\ \E res \in {"booking", "pending"} :
       desk' = [desk EXCEPT !.pc = "room_failed", !.result = res]
  /\ UNCHANGED <<rooms, bookings, auto_checkout_logs, room_status_history, now, lastRuns,
                 steps, txn, written>>

\* supabase.rpc('auto_checkout_rooms'): the transaction starts, now() is fixed
Begin(p) ==
  /\ txn[p].pc = "idle"
  /\ LET open == {q \in Passes : txn[q].pc \notin {"idle", "done"}}
     IN txn' = [q \in Passes |->
                 IF q = p THEN [txn[p] EXCEPT !.pc = "bookings", !.at = now,
                                              !.overlapped = (open # {})]
                 ELSE [txn[q] EXCEPT !.overlapped = @ \/ (q \in open)]]
  /\ UNCHANGED <<rooms, bookings, auto_checkout_logs, room_status_history, now, lastRuns,
                 steps, desk, written>>

\* statement 1: UPDATE bookings
StmtBookings(p) ==
  /\ txn[p].pc = "bookings"
  /\ LET target == {i \in DOMAIN bookings : Expired(ViewBookings(p)[i], txn[p].at)}
     IN /\ target \cap LockedBookings(p) = {}
        /\ txn' = [txn EXCEPT ![p].pc = "rooms", ![p].wb = target]
  /\ UNCHANGED <<rooms, bookings, auto_checkout_logs, room_status_history, now, lastRuns,
                 steps, desk, written>>

\* statement 2: UPDATE rooms
StmtRooms(p) ==
  /\ txn[p].pc = "rooms"
  /\ LET bk == ViewBookings(p)
         target == {bk[i].room_id : i \in AutoCheckedOutToday(bk, txn[p].at)}
     IN /\ target \cap LockedRooms(p) = {}
        /\ txn' = [txn EXCEPT ![p].pc = "logs", ![p].wr = target]
  /\ UNCHANGED <<rooms, bookings, auto_checkout_logs, room_status_history, now, lastRuns,
                 steps, desk, written>>

\* statement 3: INSERT INTO auto_checkout_logs
StmtLogs(p) ==
  /\ txn[p].pc = "logs"
  /\ txn' = [txn EXCEPT ![p].pc = "history",
                        ![p].logs = LogRows(ViewBookings(p), txn[p].at)]
  /\ UNCHANGED <<rooms, bookings, auto_checkout_logs, room_status_history, now, lastRuns,
                 steps, desk, written>>

\* statement 4: INSERT INTO room_status_history
StmtHistory(p) ==
  /\ txn[p].pc = "history"
  /\ txn' = [txn EXCEPT ![p].pc = "commit",
                        ![p].hist = HistoryRows(ViewRooms(p), txn[p].at)]
  /\ UNCHANGED <<rooms, bookings, auto_checkout_logs, room_status_history, now, lastRuns,
                 steps, desk, written>>

\* the function returns: the transaction commits and its locks are released
Commit(p) ==
  /\ txn[p].pc = "commit"
  /\ bookings' = ViewBookings(p)
  /\ rooms' = ViewRooms(p)
  /\ auto_checkout_logs' = auto_checkout_logs \o txn[p].logs
  /\ room_status_history' = room_status_history \o txn[p].hist
  /\ written' = [b \in DOMAIN written |-> IF b \in txn[p].wb THEN written[b] + 1 ELSE written[b]]
  /\ txn' = [txn EXCEPT ![p].pc = "done", ![p].wb = {}, ![p].wr = {},
                        ![p].logs = << >>, ![p].hist = << >>]
  /\ UNCHANGED <<now, lastRuns, steps, desk>>

NextOverlap ==
  \/ \E op \in {"checkIn", "checkOut"}, b \in BookingIds : DeskBookingWrite(op, b)
  \/ \E op \in {"checkIn", "checkOut"}, b \in BookingIds : DeskBookingWriteFails(op, b)
  \/ DeskRoomWrite
  \/ DeskRoomWriteFails
  \/ \E p \in Passes : Begin(p)
  \/ \E p \in Passes : StmtBookings(p)
  \/ \E p \in Passes : StmtRooms(p)
  \/ \E p \in Passes : StmtLogs(p)
  \/ \E p \in Passes : StmtHistory(p)
  \/ \E p \in Passes : Commit(p)
  \/ now < MaxTicks /\ Tick /\ UNCHANGED steps

SpecOverlap == InitOverlap /\ [][NextOverlap]_vars

\* ================================================================ repeated calls
\* The scheduler calls auto_checkout_rooms() again and again.  A call that fails
\* or is interrupted rolls its transaction back: nothing of it is committed.
\* The caller is left with the error of the call.
auto_checkout_rooms_fails ==
  /\ txn' = [txn EXCEPT !["cron"].pc = "failed"]
  /\ UNCHANGED <<rooms, bookings, auto_checkout_logs, room_status_history, now, lastRuns,
                 desk, written>>

\* variant: the call made while some booking is expired never commits
Reclaim_RollsBack ==
  /\ \E b \in BookingIds : Expired(bookings[b], now)
  /\ auto_checkout_rooms_fails
  /\ UNCHANGED steps

\* a call that commits while some booking is expired; the scheduler makes it
\* whatever else has been done
Reclaim ==
  /\ \E b \in BookingIds : Expired(bookings[b], now)
  /\ auto_checkout_rooms
  /\ UNCHANGED steps

\* one more call while the scheduler keeps calling
Call == steps < MaxCalls /\ steps' = steps + 1

NextRetry ==
  \/ \E b \in BookingIds : Call /\ checkIn(b)
  \/ \E b \in BookingIds : Call /\ checkOut(b)
  \/ \E r \in Rooms, s \in RoomStatus : Call /\ updateRoomStatus(r, s)
  \/ Call /\ Tick
  \/ Call /\ auto_checkout_rooms_fails
  \/ Reclaim

SpecRetry == InitOverlap /\ [][NextRetry]_vars /\ WF_vars(Reclaim)

\* ================================================================ properties
CheckedIn(r) == {b \in BookingIds : bookings[b].room_id = r /\ bookings[b].status = "checked_in"}

\* the auto_checkout_logs rows for booking b among the rows of lg
LogsOf(lg, b) == {i \in 1..Len(lg) : lg[i].booking_id = b}

\* position of a status in the order confirmed < checked_in < checked_out
Rank(st) == CASE st = "confirmed" -> 0
              [] st = "checked_in" -> 1
              [] st = "checked_out" -> 2
              [] OTHER -> 3

\* ---------------------------------------------------------------- C1
\* C1: between operations, a room is 'occupied' if and only if exactly one
\* booking of that room is 'checked_in'.
C1_OccupiedIffOneCheckedIn ==
  \A r \in Rooms : (rooms[r].status = "occupied") <=> (Cardinality(CheckedIn(r)) = 1)

\* ---------------------------------------------------------------- C2
\* C2: no room ever has two different bookings that are both 'checked_in'.
C2_NoTwoCheckedIn ==
  \A r \in Rooms : Cardinality(CheckedIn(r)) <= 1

\* ---------------------------------------------------------------- C3
\* C3: no step moves a booking's status to an earlier state in the order
\* confirmed < checked_in < checked_out.
C3_StatusMonotonic ==
  [][\A b \in BookingIds : Rank(bookings'[b].status) >= Rank(bookings[b].status)]_vars

\* ---------------------------------------------------------------- C4
\* C4: an auto_checkout_rooms() call that directly follows another one with the
\* same reference date (at the same or a later time of that day) transitions no
\* booking: the bookings table is the same before and after it.
C4_SecondRunKeepsBookings ==
  [][(/\ lastRuns # << >>
      /\ DATE(lastRuns[Len(lastRuns)]) = CURRENT_DATE
      /\ auto_checkout_rooms) => bookings' = bookings]_vars

\* a second call in a row, made later on the same day than the first, which had
\* checked out a booking
C4_Witness ==
  /\ Len(lastRuns) >= 2
  /\ lastRuns[2] > lastRuns[1]
  /\ DATE(lastRuns[2]) = DATE(lastRuns[1])
  /\ \E b \in BookingIds : /\ bookings[b].status = "checked_out"
                            /\ bookings[b].auto_checkout
                            /\ bookings[b].actual_check_out = {lastRuns[1]}

\* ---------------------------------------------------------------- C5
\* C5: an auto_checkout_rooms() call that directly follows another one made at
\* the same time changes nothing: rooms, bookings, auto_checkout_logs and
\* room_status_history are all as before.
C5_SecondRunIsNoOp ==
  [][(lastRuns # << >> /\ lastRuns[Len(lastRuns)] = now /\ auto_checkout_rooms)
       => UNCHANGED <<rooms, bookings, auto_checkout_logs, room_status_history>>]_vars

\* ---------------------------------------------------------------- C6
\* C6: when a manual checkOut of booking 1 (checked in, expired) and one
\* auto_checkout_rooms() call have both finished, in whatever order their
\* writes interleaved, the booking is checked_out by exactly one UPDATE and has
\* exactly one auto_checkout_logs row.
C6_RaceSettlesOnce ==
  (/\ desk.pc = "done" /\ desk.op = "checkOut" /\ desk.b = 1
   /\ txn["cron"].pc = "done" /\ txn["trigger"].pc = "idle")
  => /\ bookings[1].status = "checked_out"
     /\ written[1] = 1
     /\ Cardinality(LogsOf(auto_checkout_logs, 1)) = 1

\* ---------------------------------------------------------------- C7
\* C7: when two overlapping auto_checkout_rooms() calls have both finished (and
\* the front desk made no call), the expired booking 1 was transitioned once
\* and has exactly one auto_checkout_logs row.
C7_OverlappingPassesLogOnce ==
  (/\ txn["cron"].pc = "done" /\ txn["trigger"].pc = "done"
   /\ txn["cron"].overlapped /\ txn["trigger"].overlapped
   /\ desk.pc = "idle")
  => /\ written[1] = 1
     /\ Cardinality(LogsOf(auto_checkout_logs, 1)) = 1

\* ---------------------------------------------------------------- C8
\* C8: auto_checkout_rooms() at date D checks out every checked_in booking with
\* check_out_date <= D (D itself included) and leaves every other booking,
\* check_out_date = D+1 included, exactly as it was.
C8_ExpiryBoundary ==
  [][auto_checkout_rooms =>
       \A b \in BookingIds :
         IF bookings[b].status = "checked_in" /\ bookings[b].check_out_date < CURRENT_DATE + 1
           THEN bookings'[b].status = "checked_out"
           ELSE bookings'[b] = bookings[b]]_vars

\* after a call at date D: a booking ending on D was checked out by it, and a
\* booking ending on D+1 is still checked in
C8_Witness ==
  /\ lastRuns # << >> /\ lastRuns[Len(lastRuns)] = now
  /\ \E b \in BookingIds : /\ bookings[b].check_out_date = CURRENT_DATE
                            /\ bookings[b].status = "checked_out"
                            /\ bookings[b].auto_checkout
                            /\ bookings[b].actual_check_out = {now}
  /\ \E b \in BookingIds : /\ bookings[b].check_out_date = CURRENT_DATE + 1
                            /\ bookings[b].status = "checked_in"

\* ---------------------------------------------------------------- C9
\* C9: for every expired checked_in booking whose room is occupied, one
\* auto_checkout_rooms() call at time T leaves the booking checked_out with
\* actual_check_out = T and auto_checkout = true, the room available with
\* last_checkout = T, and appends exactly one log row for (hotel, room, booking).
C9_AllEffectsTogether ==
  [][auto_checkout_rooms =>
       \A b \in BookingIds :
         (/\ bookings[b].status = "checked_in"
          /\ bookings[b].check_out_date <= CURRENT_DATE
          /\ rooms[bookings[b].room_id].status = "occupied")
         => LET added == SubSeq(auto_checkout_logs', Len(auto_checkout_logs) + 1,
                                Len(auto_checkout_logs'))
            IN /\ bookings'[b].status = "checked_out"
               /\ bookings'[b].actual_check_out = {now}
               /\ bookings'[b].auto_checkout = TRUE
               /\ rooms'[bookings[b].room_id].status = "available"
               /\ rooms'[bookings[b].room_id].last_checkout = {now}
               /\ Cardinality(LogsOf(added, b)) = 1
               /\ \A i \in LogsOf(added, b) :
                    /\ added[i].hotel_id = bookings[b].hotel_id
                    /\ added[i].room_id = bookings[b].room_id
                    /\ added[i].checkout_time = now]_vars

\* a call has just checked out a booking, freed its room and logged it
C9_Witness ==
  /\ lastRuns # << >> /\ lastRuns[Len(lastRuns)] = now
  /\ \E b \in BookingIds :
       /\ bookings[b].status = "checked_out"
       /\ bookings[b].auto_checkout
       /\ bookings[b].actual_check_in # {}
       /\ bookings[b].actual_check_out = {now}
       /\ rooms[bookings[b].room_id] = [status |-> "available", last_checkout |-> {now}]
       /\ Cardinality(LogsOf(auto_checkout_logs, b)) = 1

\* ---------------------------------------------------------------- C10
\* C10: auto_checkout_rooms() changes a room's status and last_checkout only
\* if the room is 'occupied' when it runs.
C10_OnlyOccupiedRoomsFreed ==
  [][auto_checkout_rooms =>
       \A r \in Rooms : rooms[r].status # "occupied" => rooms'[r] = rooms[r]]_vars

\* ---------------------------------------------------------------- C11
\* C11: a checkIn of a booking that is not 'confirmed', and a checkOut of a
\* booking that is not 'checked_in', change no field of the booking or of its
\* room.
C11_RejectedCallsMutateNothing ==
  [][\A b \in BookingIds :
       (\/ checkIn(b) /\ bookings[b].status # "confirmed"
        \/ checkOut(b) /\ bookings[b].status # "checked_in")
       => UNCHANGED <<bookings, rooms>>]_vars

\* ---------------------------------------------------------------- C12
\* C12: a checkOut of a checked_in booking at time T leaves the booking
\* checked_out with actual_check_out = T and auto_checkout = false, and its room
\* available with last_checkout = T.
C12_ManualCheckOutEffects ==
  [][\A b \in BookingIds :
       (checkOut(b) /\ bookings[b].status = "checked_in")
       => /\ bookings'[b].status = "checked_out"
          /\ bookings'[b].actual_check_out = {now}
          /\ bookings'[b].auto_checkout = FALSE
          /\ rooms'[bookings[b].room_id] = [status |-> "available", last_checkout |-> {now}]]_vars

\* ---------------------------------------------------------------- C13
\* C13: for every booking, actual_check_in is set exactly when the status is
\* checked_in or checked_out, and actual_check_out is set exactly when the
\* status is checked_out.
C13_TimestampsMatchStatus ==
  \A b \in BookingIds :
    /\ (bookings[b].actual_check_in # {}) <=> (bookings[b].status \in {"checked_in", "checked_out"})
    /\ (bookings[b].actual_check_out # {}) <=> (bookings[b].status = "checked_out")

\* ---------------------------------------------------------------- C14
\* C14: a manual checkOut writes the booking before the room: its room write
\* only ever happens on a booking that is already checked_out, and once its
\* first write is done the booking is checked_out whether the room write
\* follows, fails or never comes.
C14_BookingWriteBeforeRoomWrite ==
  [][/\ (desk.op = "checkOut" /\ DeskRoomWrite) => bookings[desk.b].status = "checked_out"
     /\ (desk'.op = "checkOut" /\ desk'.pc \in {"room", "room_failed", "done"})
          => bookings'[desk'.b].status = "checked_out"]_vars

\* the worst partial outcome: the room write of a checkOut was lost, the booking
\* is checked_out and its room still occupied
C14_Witness ==
  /\ desk.op = "checkOut" /\ desk.pc = "room_failed"
  /\ bookings[desk.b].status = "checked_out"
  /\ rooms[desk.room_id].status = "occupied"

\* ---------------------------------------------------------------- C15
\* C15: every step keeps the auto_checkout_logs rows it found, unchanged and in
\* place, and only an auto_checkout_rooms() call adds rows.
C15_LogsAppendOnly ==
  [][/\ Len(auto_checkout_logs') >= Len(auto_checkout_logs)
     /\ SubSeq(auto_checkout_logs', 1, Len(auto_checkout_logs)) = auto_checkout_logs
     /\ (auto_checkout_logs' # auto_checkout_logs => auto_checkout_rooms)]_vars

\* rows of an earlier call are still there after a later call has added its own
C15_Witness ==
  \E i, j \in 1..Len(auto_checkout_logs) :
    i < j /\ auto_checkout_logs[i].checkout_time < auto_checkout_logs[j].checkout_time

\* ---------------------------------------------------------------- C16
\* C16: every step that makes a room occupied, or makes an occupied room
\* something else, appends a room_status_history row or an auto_checkout_logs
\* row for that room.
C16_OccupancyChangesAudited ==
  [][\A r \in Rooms :
       ((rooms'[r].status = "occupied") # (rooms[r].status = "occupied"))
       => \/ \E i \in (Len(room_status_history) + 1)..Len(room_status_history') :
               room_status_history'[i].room_id = r
          \/ \E i \in (Len(auto_checkout_logs) + 1)..Len(auto_checkout_logs') :
               auto_checkout_logs'[i].room_id = r]_vars

C18_PartialFailureIsolated ==
  [][LET batch == {b \in BookingIds : Expired(bookings[b], now)}
     IN (auto_checkout_rooms_fails /\ batch # {})
          => /\ txn'["cron"].pc # "failed"
             /\ \E f \in batch :
                  \A b \in batch \ {f} :
                    /\ bookings'[b].status = "checked_out"
                    /\ bookings'[b].auto_checkout
                    /\ bookings[b].room_id # bookings[f].room_id
                         => rooms'[bookings[b].room_id].status = "available"]_vars

\* ---------------------------------------------------------------- C19
\* C19: createBooking stores a booking only when check_in_date < check_out_date
\* and its price is greater than 0, so every stored booking has both.
C19_StoredBookingsValid ==
  \A b \in BookingIds :
    /\ bookings[b].check_in_date < bookings[b].check_out_date
    /\ bookings[b].total_amount > 0

\* ---------------------------------------------------------------- C20
\* C20: a call of auto_checkout_rooms() changes a room (its status or its
\* last_checkout) only if a booking of that room goes from checked_in to
\* checked_out in that same call.
C20_OnlyTransitionedRoomsChange ==
  [][auto_checkout_rooms =>
       \A r \in Rooms :
         rooms'[r] # rooms[r]
           => \E b \in BookingIds :
                /\ bookings[b].room_id = r
                /\ bookings[b].status = "checked_in"
                /\ bookings'[b].status = "checked_out"]_vars

\* ---------------------------------------------------------------- C21
\* C21: when a checkIn has run together with auto_checkout_rooms() calls and all
\* of them have finished, the room it checked in to is not left 'occupied'
\* with no checked_in booking.
C21_CheckInSafeWithReclaim ==
  (/\ desk.pc = "done"
   /\ desk.op = "checkIn"
   /\ \A p \in Passes : txn[p].pc \in {"idle", "done"})
    => (rooms[desk.room_id].status = "occupied" => CheckedIn(desk.room_id) # {})

\* ---------------------------------------------------------------- C22
\* C22: a call of auto_checkout_rooms() appends exactly one room_status_history
\* row for each room it moves from occupied to available, and none for any
\* other room (a room freed earlier the same day by checkOut gets none).
C22_HistoryOnlyForFreedRooms ==
  [][auto_checkout_rooms =>
       \A r \in Rooms :
         Cardinality({i \in (Len(room_status_history) + 1)..Len(room_status_history') :
                        room_status_history'[i].room_id = r})
           = IF rooms[r].status = "occupied" /\ rooms'[r].status = "available"
               THEN 1 ELSE 0]_vars

\* ---------------------------------------------------------------- C23
\* C23: when a checkIn or checkOut returns the booking to its caller, its room
\* write has taken effect: the room is occupied after checkIn, available
\* after checkOut.
C23_SuccessMeansRoomWritten ==
  [][(desk.result = "pending" /\ desk'.result = "booking")
       => rooms'[desk'.room_id].status =
            IF desk'.op = "checkIn" THEN "occupied" ELSE "available"]_vars

====
